---- MODULE Spec2Model ----
(***************************************************************************)
(* Model of rust-mls-worker (src/rust-mls-worker/src/mls_ops.rs, lib.rs):  *)
(* the designated-committer protocol layered on an MLS group.              *)
(*                                                                         *)
(* One WorkerState per user.  The room is one totally ordered log of       *)
(* presence events (userJoined, userLeft) and MLS artifacts (Welcome,      *)
(* commit); every present worker consumes the log in order, one event per  *)
(* step, through the handlers of mls_ops.rs, and the artifacts of its      *)
(* response are appended to the log (lib.rs processEvent).                 *)
(*                                                                         *)
(* The MLS library is modelled by what the handlers observe of it: the     *)
(* leaves of the ratchet tree (leaf index -> UID), the epoch, and the      *)
(* identity of the group state (the commit that produced it), which stands *)
(* for the epoch authenticator.                                            *)
(*                                                                         *)
(* Two reductions keep the state space small without losing behaviours:    *)
(*  - users are interchangeable, so they enter the room in the order of    *)
(*    their UIDs and the lowest UID creates the group;                     *)
(*  - a handler call that sends nothing to the room changes only the       *)
(*    calling worker's state, so it commutes with every step of every      *)
(*    other worker; such calls are taken before any other step, lowest     *)
(*    UID first (Silent, Urgent, Turn).                                    *)
(***************************************************************************)
EXTENDS Integers, Sequences, FiniteSets, TLC

\* Number of users that may ever enter the room.
NumUsers == 4

\* Number of presence events (entries and departures) the room may see.
MaxPresence == 7

\* The joins presence may be withholding from one worker at a time.
MaxLate == 1

\* The sender-ratchet window, scaled down: OUT_OF_ORDER_TOLERANCE generations
\* in the past are kept (500 in the source), MAX_MESSAGE_SEQ_JUMP generations
\* ahead are accepted (1000 in the source).
OUT_OF_ORDER_TOLERANCE == 2

MAX_MESSAGE_SEQ_JUMP == 3

\* The media frames the room may put on the wire.
MaxFrames == 3
MaxCallers == 2
MaxLen == 2

Users == 1 .. NumUsers

\* The user that creates the group: the lowest UID.
Creator == CHOOSE u \in Users : \A v \in Users : u <= v

\* A blank leaf of the ratchet tree.
Blank == 0

\* Leaf indices (LeafNodeIndex) of a tree that can hold every user.
LeafIdx == 0 .. (NumUsers - 1)

\* Option<T>
None == << >>

Some(x) == << x >>

IsSome(o) == o # None

Unwrap(o) == o[1]

Range(s) == { s[i] : i \in 1 .. Len(s) }

\* Vec::retain
RECURSIVE Retain(_, _)
Retain(s, keep) ==
    IF s = << >> THEN << >>
    ELSE IF Head(s) \in keep THEN << Head(s) >> \o Retain(Tail(s), keep)
    ELSE Retain(Tail(s), keep)

VARIABLES
    states,   \* user -> WorkerState
    room,     \* user -> "absent" | "present" | "left"
    log,      \* the delivery service's totally ordered sequence of events
    cursor,   \* user -> number of log entries the user's worker has consumed
    last,     \* the most recent handler call: who, what, the state before, the response
    late,     \* user -> joins presence has not yet told the user's worker of
    frames,   \* the media frames that have been put on the wire, each with its readers
    stream    \* the worker's run of process_stream: what it has read and written

vars == << states, room, log, cursor, last, late, frames, stream >>

(***************************************************************************)
(* The MLS group as the handlers see it.                                   *)
(***************************************************************************)

EmptyTree == [ i \in LeafIdx |-> Blank ]

\* The application-message ratchets of a new epoch: the generation of the
\* worker's next own message, and for every sender the generation its
\* decryption ratchet is at and the earlier generations whose secrets are kept.
FreshSecretTree ==
    [ gen |-> 0, head |-> [ u \in Users |-> 0 ], kept |-> [ u \in Users |-> {} ] ]

\* MlsGroup::members(): the non-blank leaves.
members(group) == { i \in LeafIdx : group.tree[i] # Blank }

member_uids(group) == { group.tree[i] : i \in members(group) }

\* The leftmost blank leaf, where MLS places an added member.
free_leaf_index(tree) ==
    CHOOSE i \in LeafIdx : tree[i] = Blank /\ \A j \in LeafIdx : j < i => tree[j] # Blank

\* The tree after the Add proposals of one commit, applied in order.
RECURSIVE add_leaves(_, _)
add_leaves(tree, uids) ==
    IF uids = << >> THEN tree
    ELSE add_leaves([ tree EXCEPT ![free_leaf_index(tree)] = Head(uids) ], Tail(uids))

\* The tree after the Remove proposals of one commit.
remove_leaves(tree, idxs) ==
    [ i \in LeafIdx |-> IF i \in Range(idxs) THEN Blank ELSE tree[i] ]

\* MlsGroup::new: a group whose only member is its creator, at leaf 0, epoch 0.
new_group(uid) ==
    [ tree |-> [ EmptyTree EXCEPT ![0] = uid ], epoch |-> 0, tip |-> 0, own |-> 0,
      secret_tree |-> FreshSecretTree ]

\* The group after merging a commit.
merge_commit(group, c) ==
    [ group EXCEPT
        !.tree = remove_leaves(add_leaves(group.tree, c.adds), c.removes),
        !.epoch = group.epoch + 1,
        !.tip = c.id,
        !.secret_tree = FreshSecretTree ]

(***************************************************************************)
(* WorkerState and WorkerResponse                                          *)
(***************************************************************************)

\* WorkerState::default(): no identity (uid 0), no group, nothing pending.
WorkerStateDefault ==
    [ uid |-> 0,
      has_key_package |-> FALSE,
      mls_group |-> None,
      users_alive_before_i_was_welcomed |-> None,
      users_who_left_since_i_joined |-> {},
      pending_adds |-> << >>,
      pending_removes |-> << >>,
      panicked |-> FALSE ]

\* WorkerState::new: the identity and a fresh KeyPackage, whose private part is
\* put in the provider's key store.
WorkerStateNew(uid) ==
    [ uid |-> uid,
      has_key_package |-> TRUE,
      mls_group |-> None,
      users_alive_before_i_was_welcomed |-> None,
      users_who_left_since_i_joined |-> {},
      pending_adds |-> << >>,
      pending_removes |-> << >>,
      panicked |-> FALSE ]

\* WorkerResponse::default()
DefaultResponse ==
    [ welcome |-> None, proposals |-> << >>, new_safety_number |-> None,
      key_pkg |-> None, sender_id |-> None ]

\* The outcome of a handler: the state it leaves and the response it returns.
Outcome(s, r) == [ state |-> s, resp |-> r ]

\* A handler that panics returns nothing; the worker handles no further event.
Panic(s) == [ state |-> [ s EXCEPT !.panicked = TRUE ], resp |-> DefaultResponse ]

\* The epoch authenticator, truncated: one value per group state.
safety_number(s) ==
    << Unwrap(s.mls_group).epoch, Unwrap(s.mls_group).tip >>

\* Variant: a worker that was never welcomed counts as having an empty cohort.
is_designated_committer_lenient(s) ==
    IF IsSome(s.users_alive_before_i_was_welcomed)
    THEN Unwrap(s.users_alive_before_i_was_welcomed) \ s.users_who_left_since_i_joined = {}
    ELSE TRUE

is_designated_committer(s) ==
    IF IsSome(s.users_alive_before_i_was_welcomed)
    THEN Unwrap(s.users_alive_before_i_was_welcomed) \ s.users_who_left_since_i_joined = {}
    ELSE FALSE

\* Variant: the group is created but the cohort is left unset.
start_group_no_cohort(s) ==
    [ s EXCEPT !.mls_group = Some(new_group(s.uid)) ]

start_group(s) ==
    [ s EXCEPT
        !.mls_group = Some(new_group(s.uid)),
        !.users_alive_before_i_was_welcomed = Some({}) ]

\* A Welcome with the ratchet tree exported after the Add commit was merged
\* (WelcomePackageOut).  recipients: the users whose KeyPackages the commit added.
\* Variant: the Welcome is usable by one of the added users only.
WelcomePackageForOne(recipients, group) ==
    [ recipients |-> { CHOOSE u \in recipients : \A v \in recipients : u <= v },
      tree |-> group.tree, epoch |-> group.epoch, tip |-> group.tip ]

WelcomePackage(recipients, group) ==
    [ recipients |-> recipients, tree |-> group.tree, epoch |-> group.epoch,
      tip |-> group.tip ]

\* A commit authored by sender on the group state (epoch, parent), adding the
\* KeyPackages of adds and removing the leaves removes.
Commit(sender, group, id, adds, removes) ==
    [ sender |-> sender, epoch |-> group.epoch, parent |-> group.tip, id |-> id,
      adds |-> adds, removes |-> removes ]

\* Variant: the KeyPackage stays usable after it has opened a Welcome.
can_stage_welcome_again(s, wp) ==
    s.uid \in wp.recipients

\* StagedWelcome::new_from_welcome succeeds only for a user the Welcome carries
\* secrets for and whose KeyPackage is still in the key store; opening the
\* Welcome removes the KeyPackage from the key store.
can_stage_welcome(s, wp) ==
    s.uid \in wp.recipients /\ s.has_key_package

\* The leaf of uid in tree.
leaf_of(tree, uid) == CHOOSE i \in LeafIdx : tree[i] = uid

\* Variant: every member at another leaf, lower or higher.
users_at_other_leaves(tree, my_leaf_idx) ==
    { tree[i] : i \in { j \in LeafIdx : tree[j] # Blank /\ j # my_leaf_idx } }

\* The members m with m.index < my_leaf_idx.
users_before_leaf(tree, my_leaf_idx) ==
    { tree[i] : i \in { j \in LeafIdx : tree[j] # Blank /\ j < my_leaf_idx } }

\* Variant: a Welcome that cannot be staged is treated as a malformed message.
join_group_strict(s, wp) ==
    IF ~can_stage_welcome(s, wp) THEN Panic(s)
    ELSE
        LET my_leaf_idx == leaf_of(wp.tree, s.uid)
            group == [ tree |-> wp.tree, epoch |-> wp.epoch, tip |-> wp.tip,
                       own |-> my_leaf_idx, secret_tree |-> FreshSecretTree ]
            s1 == [ s EXCEPT
                      !.has_key_package = FALSE,
                      !.mls_group = Some(group),
                      !.users_alive_before_i_was_welcomed =
                          Some(users_before_leaf(wp.tree, my_leaf_idx)),
                      !.pending_adds = Retain(s.pending_adds, Users \ member_uids(group)) ]
        IN Outcome(s1, [ DefaultResponse EXCEPT
                           !.new_safety_number = Some(safety_number(s1)) ])

\* Variant: the pending adds are left as they were.
join_group_no_purge(s, wp) ==
    IF ~can_stage_welcome(s, wp) THEN Outcome(s, DefaultResponse)
    ELSE
        LET my_leaf_idx == leaf_of(wp.tree, s.uid)
            group == [ tree |-> wp.tree, epoch |-> wp.epoch, tip |-> wp.tip,
                       own |-> my_leaf_idx, secret_tree |-> FreshSecretTree ]
            s1 == [ s EXCEPT
                      !.has_key_package = FALSE,
                      !.mls_group = Some(group),
                      !.users_alive_before_i_was_welcomed =
                          Some(users_before_leaf(wp.tree, my_leaf_idx)) ]
        IN Outcome(s1, [ DefaultResponse EXCEPT
                           !.new_safety_number = Some(safety_number(s1)) ])

join_group(s, wp) ==
    IF ~can_stage_welcome(s, wp) THEN Outcome(s, DefaultResponse)
    ELSE
        LET my_leaf_idx == leaf_of(wp.tree, s.uid)
            group == [ tree |-> wp.tree, epoch |-> wp.epoch, tip |-> wp.tip,
                       own |-> my_leaf_idx, secret_tree |-> FreshSecretTree ]
            users_in_tree == member_uids(group)
            s1 == [ s EXCEPT
                      !.has_key_package = FALSE,
                      !.mls_group = Some(group),
                      !.users_alive_before_i_was_welcomed =
                          Some(users_before_leaf(wp.tree, my_leaf_idx)),
                      !.pending_adds = Retain(s.pending_adds, Users \ users_in_tree) ]
        IN Outcome(s1, [ DefaultResponse EXCEPT
                           !.new_safety_number = Some(safety_number(s1)) ])

\* MlsGroup::add_members rejects a KeyPackage of a user already in the tree, or
\* two KeyPackages of one user.
add_members_ok(group, uids) ==
    /\ Range(uids) \cap member_uids(group) = {}
    /\ Cardinality(Range(uids)) = Len(uids)

\* The leaf indices of the pending removes that are members, in pending order.
RECURSIVE pending_remove_idxs(_, _)
pending_remove_idxs(tree, uids) ==
    IF uids = << >> THEN << >>
    ELSE IF \E i \in LeafIdx : tree[i] = Head(uids)
         THEN << leaf_of(tree, Head(uids)) >> \o pending_remove_idxs(tree, Tail(uids))
         ELSE pending_remove_idxs(tree, Tail(uids))

\* Variant: the pending adds and the pending removes go into one commit.
commit_pendings_together(s, base) ==
    IF s.mls_group = None THEN Panic(s)
    ELSE
        LET group == Unwrap(s.mls_group)
            has_adds == s.pending_adds # << >>
            has_removes == s.pending_removes # << >>
            idxs == pending_remove_idxs(add_leaves(group.tree, s.pending_adds),
                                        s.pending_removes)
            both == Commit(s.uid, group, IF has_adds THEN base + 2 ELSE base + 1,
                           s.pending_adds, idxs)
            group1 == IF has_adds \/ has_removes THEN merge_commit(group, both) ELSE group
            s2 == [ s EXCEPT
                      !.mls_group = Some(group1),
                      !.pending_adds = << >>,
                      !.pending_removes = << >> ]
        IN  IF has_adds /\ ~add_members_ok(group, s.pending_adds) THEN Panic(s)
            ELSE IF has_removes /\ idxs = << >> THEN Panic(s)
            ELSE Outcome(s2,
                   [ welcome |-> IF has_adds
                                 THEN Some([ recipients |-> Range(s.pending_adds),
                                             tree |-> group1.tree,
                                             epoch |-> group1.epoch,
                                             tip |-> group1.tip ])
                                 ELSE None,
                     proposals |-> IF has_adds \/ has_removes THEN << both >> ELSE << >>,
                     new_safety_number |-> Some(safety_number(s2)),
                     key_pkg |-> None,
                     sender_id |-> Some(s.uid) ])

\* Variant: the Remove commit is authored on the group as it was before the
\* adds, and leads the list of commits.
commit_pendings_remove_first(s, base) ==
    IF s.mls_group = None THEN Panic(s)
    ELSE
        LET group == Unwrap(s.mls_group)
            has_adds == s.pending_adds # << >>
            has_removes == s.pending_removes # << >>
            idxs == pending_remove_idxs(group.tree, s.pending_removes)
            removal == Commit(s.uid, group, IF has_adds THEN base + 2 ELSE base + 1,
                              << >>, idxs)
            group1 == IF has_removes THEN merge_commit(group, removal) ELSE group
            additions == Commit(s.uid, group1, IF has_removes THEN base + 3 ELSE base + 2,
                                s.pending_adds, << >>)
            group2 == IF has_adds THEN merge_commit(group1, additions) ELSE group1
            s2 == [ s EXCEPT
                      !.mls_group = Some(group2),
                      !.pending_adds = << >>,
                      !.pending_removes = << >> ]
        IN  IF has_adds /\ ~add_members_ok(group1, s.pending_adds) THEN Panic(s)
            ELSE IF has_removes /\ idxs = << >> THEN Panic(s)
            ELSE Outcome(s2,
                   [ welcome |-> IF has_adds
                                 THEN Some([ recipients |-> Range(s.pending_adds),
                                             tree |-> group2.tree,
                                             epoch |-> group2.epoch,
                                             tip |-> group2.tip ])
                                 ELSE None,
                     proposals |-> (IF has_removes THEN << removal >> ELSE << >>)
                                   \o (IF has_adds THEN << additions >> ELSE << >>),
                     new_safety_number |-> Some(safety_number(s2)),
                     key_pkg |-> None,
                     sender_id |-> Some(s.uid) ])

\* Variant: the safety number is taken before the Remove commit is merged.
commit_pendings_early_number(s, base) ==
    IF s.mls_group = None THEN Panic(s)
    ELSE
        LET group == Unwrap(s.mls_group)
            has_adds == s.pending_adds # << >>
            add_id == base + 2
            additions == Commit(s.uid, group, add_id, s.pending_adds, << >>)
            group1 == IF has_adds THEN merge_commit(group, additions) ELSE group
            has_removes == s.pending_removes # << >>
            idxs == pending_remove_idxs(group1.tree, s.pending_removes)
            remove_id == IF has_adds THEN base + 3 ELSE base + 1
            removal == Commit(s.uid, group1, remove_id, << >>, idxs)
            group2 == IF has_removes THEN merge_commit(group1, removal) ELSE group1
            s2 == [ s EXCEPT
                      !.mls_group = Some(group2),
                      !.pending_adds = << >>,
                      !.pending_removes = << >> ]
        IN  IF has_adds /\ ~add_members_ok(group, s.pending_adds) THEN Panic(s)
            ELSE IF has_removes /\ idxs = << >> THEN Panic(s)
            ELSE Outcome(s2,
                   [ welcome |-> IF has_adds
                                 THEN Some(WelcomePackage(Range(s.pending_adds), group1))
                                 ELSE None,
                     proposals |-> (IF has_adds THEN << additions >> ELSE << >>)
                                   \o (IF has_removes THEN << removal >> ELSE << >>),
                     new_safety_number |-> Some(safety_number([ s EXCEPT !.mls_group = Some(group1) ])),
                     key_pkg |-> None,
                     sender_id |-> Some(s.uid) ])

\* The designated committer's part of process_pendings: one commit with every
\* pending add (and its Welcome), then one commit with every pending remove.
\* base: the number of artifacts the delivery service has ordered so far; the
\* artifacts of the response take the next places, which identify the commits.
commit_pendings(s, base) ==
    IF s.mls_group = None THEN Panic(s)
    ELSE
        LET group == Unwrap(s.mls_group)
            has_adds == s.pending_adds # << >>
            add_id == base + 2
            additions == Commit(s.uid, group, add_id, s.pending_adds, << >>)
            group1 == IF has_adds THEN merge_commit(group, additions) ELSE group
            has_removes == s.pending_removes # << >>
            idxs == pending_remove_idxs(group1.tree, s.pending_removes)
            remove_id == IF has_adds THEN base + 3 ELSE base + 1
            removal == Commit(s.uid, group1, remove_id, << >>, idxs)
            group2 == IF has_removes THEN merge_commit(group1, removal) ELSE group1
            s2 == [ s EXCEPT
                      !.mls_group = Some(group2),
                      !.pending_adds = << >>,
                      !.pending_removes = << >> ]
        IN  IF has_adds /\ ~add_members_ok(group, s.pending_adds) THEN Panic(s)
            ELSE IF has_removes /\ idxs = << >> THEN Panic(s)
            ELSE Outcome(s2,
                   [ welcome |-> IF has_adds
                                 THEN Some(WelcomePackage(Range(s.pending_adds), group1))
                                 ELSE None,
                     proposals |-> (IF has_adds THEN << additions >> ELSE << >>)
                                   \o (IF has_removes THEN << removal >> ELSE << >>),
                     new_safety_number |-> Some(safety_number(s2)),
                     key_pkg |-> None,
                     sender_id |-> Some(s.uid) ])

\* Variant: the pendings are committed whoever the worker is.
process_pendings_unguarded(s, base) == commit_pendings(s, base)

process_pendings(s, base) ==
    IF ~is_designated_committer(s) THEN Outcome(s, DefaultResponse)
    ELSE commit_pendings(s, base)

user_joined(s, user_kp, base) ==
    process_pendings([ s EXCEPT !.pending_adds = Append(s.pending_adds, user_kp) ], base)

\* Variant: a worker that has no group yet does not record a departure.
user_left_needs_group(s, uid_to_remove, base) ==
    IF uid_to_remove = s.uid THEN Panic(s)
    ELSE IF s.mls_group = None THEN Outcome(s, DefaultResponse)
    ELSE process_pendings(
           [ s EXCEPT
               !.pending_removes = Append(s.pending_removes, uid_to_remove),
               !.users_who_left_since_i_joined =
                   s.users_who_left_since_i_joined \cup { uid_to_remove } ],
           base)

\* Variant: a departure is also struck from the welcome cohort.
user_left_shrinks_cohort(s, uid_to_remove, base) ==
    IF uid_to_remove = s.uid THEN Panic(s)
    ELSE process_pendings(
           [ s EXCEPT
               !.pending_removes = Append(s.pending_removes, uid_to_remove),
               !.users_who_left_since_i_joined =
                   s.users_who_left_since_i_joined \cup { uid_to_remove },
               !.users_alive_before_i_was_welcomed =
                   IF IsSome(s.users_alive_before_i_was_welcomed)
                   THEN Some(Unwrap(s.users_alive_before_i_was_welcomed) \ { uid_to_remove })
                   ELSE None ],
           base)

\* Variant: the own-UID test comes after the departure has been recorded.
user_left_checks_late(s, uid_to_remove, base) ==
    LET s1 == [ s EXCEPT
                  !.pending_removes = Append(s.pending_removes, uid_to_remove),
                  !.users_who_left_since_i_joined =
                      s.users_who_left_since_i_joined \cup { uid_to_remove } ]
    IN  IF uid_to_remove = s.uid THEN Panic(s1) ELSE process_pendings(s1, base)

user_left(s, uid_to_remove, base) ==
    IF uid_to_remove = s.uid THEN Panic(s)
    ELSE process_pendings(
           [ s EXCEPT
               !.pending_removes = Append(s.pending_removes, uid_to_remove),
               !.users_who_left_since_i_joined =
                   s.users_who_left_since_i_joined \cup { uid_to_remove } ],
           base)

\* Variant: a commit of another epoch is treated like any other library error.
handle_commit_inner_strict(s, c) ==
    IF s.mls_group = None THEN Panic(s)
    ELSE
        LET group == Unwrap(s.mls_group)
            s1 == [ s EXCEPT
                      !.mls_group = Some(merge_commit(group, c)),
                      !.pending_adds = Retain(s.pending_adds, Users \ Range(c.adds)),
                      !.pending_removes =
                          Retain(s.pending_removes,
                                 Users \ { group.tree[i] : i \in Range(c.removes) }) ]
        IN  IF c.epoch # group.epoch \/ c.parent # group.tip THEN Panic(s)
            ELSE Outcome(s1, [ DefaultResponse EXCEPT
                                 !.new_safety_number = Some(safety_number(s1)) ])

\* Variant: the commit is merged but the pending buffers are left as they were.
handle_commit_inner_no_purge(s, c) ==
    IF s.mls_group = None THEN Panic(s)
    ELSE
        LET group == Unwrap(s.mls_group)
            s1 == [ s EXCEPT !.mls_group = Some(merge_commit(group, c)) ]
        IN  IF c.epoch # group.epoch THEN Outcome(s, DefaultResponse)
            ELSE IF c.parent # group.tip THEN Panic(s)
            ELSE Outcome(s1, [ DefaultResponse EXCEPT
                                 !.new_safety_number = Some(safety_number(s1)) ])

\* WorkerState::handle_commit
handle_commit_inner(s, c) ==
    IF s.mls_group = None THEN Panic(s)
    ELSE
        LET group == Unwrap(s.mls_group)
            uids_being_added == Range(c.adds)
            uids_being_removed ==
                { group.tree[i] : i \in { j \in Range(c.removes) : group.tree[j] # Blank } }
            s1 == [ s EXCEPT
                      !.mls_group = Some(merge_commit(group, c)),
                      !.pending_adds = Retain(s.pending_adds, Users \ uids_being_added),
                      !.pending_removes =
                          Retain(s.pending_removes, Users \ uids_being_removed) ]
        IN  IF c.epoch # group.epoch THEN Outcome(s, DefaultResponse)
            ELSE IF c.parent # group.tip THEN Panic(s)
            ELSE Outcome(s1, [ DefaultResponse EXCEPT
                                 !.new_safety_number = Some(safety_number(s1)) ])

\* Variant: the worker's own commit reaches the library, which refuses it.
handle_commit_unsuppressed(s, c, sender_uid) ==
    IF s.uid = sender_uid THEN Panic(s)
    ELSE handle_commit_inner(s, c)

\* mls_ops::handle_commit
handle_commit(s, c, sender_uid) ==
    IF s.uid = sender_uid THEN Outcome(s, DefaultResponse)
    ELSE handle_commit_inner(s, c)

(***************************************************************************)
(* The room: presence, the delivery service, and processEvent              *)
(***************************************************************************)

Event(type, uid, body) == [ type |-> type, uid |-> uid, body |-> body ]

RECURSIVE MessageEvents(_, _)
MessageEvents(proposals, sender_id) ==
    IF proposals = << >> THEN << >>
    ELSE << Event("recvMlsMessage", sender_id, Some(Head(proposals))) >>
         \o MessageEvents(Tail(proposals), sender_id)

\* processEvent's outbound list as the room receives it: the KeyPackage share is
\* a userJoined for the others, then sendMlsWelcome, then the sendMlsMessage's.
Outbound(uid, resp) ==
    (IF IsSome(resp.key_pkg)
     THEN << Event("userJoined", Unwrap(resp.key_pkg), None) >> ELSE << >>)
    \o (IF IsSome(resp.welcome)
        THEN << Event("recvMlsWelcome", Unwrap(resp.sender_id), resp.welcome) >>
        ELSE << >>)
    \o MessageEvents(resp.proposals, IF IsSome(resp.sender_id) THEN Unwrap(resp.sender_id) ELSE uid)

\* One object of processEvent's outbound list.
OutObj(type, sender_id, payload) ==
    [ type |-> type, senderId |-> sender_id, payload |-> payload ]

RECURSIVE MessageObjs(_, _)
MessageObjs(proposals, sender_id) ==
    IF proposals = << >> THEN << >>
    ELSE << OutObj("sendMlsMessage", sender_id, Some(Head(proposals))) >>
         \o MessageObjs(Tail(proposals), sender_id)

\* Variant: the commits are put on the list before the Welcome.
obj_list_messages_first(resp) ==
    (IF IsSome(resp.new_safety_number)
     THEN << OutObj("newSafetyNumber", None, resp.new_safety_number) >> ELSE << >>)
    \o (IF IsSome(resp.key_pkg)
        THEN << OutObj("shareKeyPackage", None, resp.key_pkg) >> ELSE << >>)
    \o MessageObjs(resp.proposals, resp.sender_id)
    \o (IF IsSome(resp.welcome)
        THEN << OutObj("sendMlsWelcome", resp.sender_id, resp.welcome) >> ELSE << >>)

\* processEvent's outbound list as it is posted to the calling thread: the
\* safety number, the KeyPackage share, the Welcome, then the commits in the
\* order of proposals, the last two kinds with the response's sender_id.
obj_list(resp) ==
    (IF IsSome(resp.new_safety_number)
     THEN << OutObj("newSafetyNumber", None, resp.new_safety_number) >> ELSE << >>)
    \o (IF IsSome(resp.key_pkg)
        THEN << OutObj("shareKeyPackage", None, resp.key_pkg) >> ELSE << >>)
    \o (IF IsSome(resp.welcome)
        THEN << OutObj("sendMlsWelcome", resp.sender_id, resp.welcome) >> ELSE << >>)
    \o MessageObjs(resp.proposals, resp.sender_id)

\* A handler call: the worker, the event it handled, the worker's state before
\* the call, and the response returned.
Call(p, e, before, out) ==
    [ p |-> p, op |-> e.type, arg |-> e, before |-> before, resp |-> out.resp,
      frame |-> << >> ]

Running(p) == room[p] = "present" /\ ~states[p].panicked

NextEvent(p) == log[cursor[p] + 1]

Dispatch(p, e, base) ==
    CASE e.type = "userJoined" -> user_joined(states[p], e.uid, base)
      [] e.type = "userLeft" -> user_left(states[p], e.uid, base)
      [] e.type = "recvMlsWelcome" -> join_group(states[p], Unwrap(e.body))
      [] e.type = "recvMlsMessage" -> handle_commit(states[p], Unwrap(e.body), e.uid)

Silent(p) ==
    /\ Running(p)
    /\ cursor[p] < Len(log)
    /\ Outbound(p, Dispatch(p, NextEvent(p), Len(log)).resp) = << >>

Urgent == \E p \in Users : Silent(p)

Turn(p) == Urgent => (Silent(p) /\ \A q \in Users : q < p => ~Silent(q))

\* The presence events so far: every entry and every departure.
PresenceEvents ==
    Cardinality({ u \in Users : room[u] # "absent" })
        + Cardinality({ u \in Users : room[u] = "left" })

\* No stream has been handed to a worker.
NoStream ==
    [ ty |-> "none", p |-> 0, unread |-> 0, taken |-> << >>, written |-> << >>,
      pc |-> "idle" ]

Init ==
    /\ states = [ u \in Users |-> WorkerStateDefault ]
    /\ room = [ u \in Users |-> "absent" ]
    /\ log = << >>
    /\ cursor = [ u \in Users |-> 0 ]
    /\ last = Call(0, Event("none", 0, None), WorkerStateDefault,
                   Outcome(WorkerStateDefault, DefaultResponse))
    /\ late = [ u \in Users |-> {} ]
    /\ frames = << >>
    /\ stream = NoStream

\* mls_ops::new_state_and_start_group
new_state_and_start_group(uid) ==
    LET s == start_group(WorkerStateNew(uid))
    IN Outcome(s, [ DefaultResponse EXCEPT !.new_safety_number = Some(safety_number(s)) ])

\* mls_ops::new_state
new_state(uid) ==
    Outcome(WorkerStateNew(uid), [ DefaultResponse EXCEPT !.key_pkg = Some(uid) ])

\* The handled event's effect on the worker and on the room.
Handle(p, e, out) ==
    /\ states' = [ states EXCEPT ![p] = out.state ]
    /\ log' = log \o Outbound(p, out.resp)
    /\ last' = Call(p, e, states[p], out)

\* The first user of the room creates the group.
InitializeAndCreateGroup(u) ==
    /\ \A v \in Users : room[v] = "absent"
    /\ u = Creator
    /\ Handle(u, Event("initializeAndCreateGroup", u, None), new_state_and_start_group(u))
    /\ room' = [ room EXCEPT ![u] = "present" ]
    /\ cursor' = [ cursor EXCEPT ![u] = Len(log') ]
    /\ UNCHANGED << late, frames, stream >>

\* A later user enters a room that has somebody in it and shares its KeyPackage.
Initialize(u) ==
    /\ room[u] = "absent"
    /\ \E v \in Users : room[v] = "present"
    /\ \A v \in Users : v < u => room[v] # "absent"
    /\ PresenceEvents < MaxPresence
    /\ ~Urgent
    /\ Handle(u, Event("initialize", u, None), new_state(u))
    /\ room' = [ room EXCEPT ![u] = "present" ]
    /\ cursor' = [ cursor EXCEPT ![u] = Len(log') ]
    /\ UNCHANGED << late, frames, stream >>

\* A user leaves the room; presence tells the others.
Leave(u) ==
    /\ room[u] = "present"
    /\ PresenceEvents < MaxPresence
    /\ ~Urgent
    /\ room' = [ room EXCEPT ![u] = "left" ]
    /\ log' = Append(log, Event("userLeft", u, None))
    /\ UNCHANGED << states, cursor, last, late, frames, stream >>

\* A present worker takes the next event of the log.
Receives(p, type) ==
    /\ Running(p)
    /\ cursor[p] < Len(log)
    /\ NextEvent(p).type = type
    /\ Turn(p)
    /\ cursor' = [ cursor EXCEPT ![p] = cursor[p] + 1 ]
    /\ UNCHANGED << room, late, frames, stream >>

UserJoined(p) ==
    /\ Receives(p, "userJoined")
    /\ Handle(p, NextEvent(p), user_joined(states[p], NextEvent(p).uid, Len(log)))

UserLeft(p) ==
    /\ Receives(p, "userLeft")
    /\ Handle(p, NextEvent(p), user_left(states[p], NextEvent(p).uid, Len(log)))

RecvMlsWelcome(p) ==
    /\ Receives(p, "recvMlsWelcome")
    /\ Handle(p, NextEvent(p), join_group(states[p], Unwrap(NextEvent(p).body)))

RecvMlsMessage(p) ==
    /\ Receives(p, "recvMlsMessage")
    /\ Handle(p, NextEvent(p),
              handle_commit(states[p], Unwrap(NextEvent(p).body), NextEvent(p).uid))

\* A Welcome handed over again, as the record of the call names it.
Redelivered(e) == Event("redeliverWelcome", e.uid, e.body)

\* The delivery service hands a worker a Welcome it has already handed it.
RedeliverWelcome(p) ==
    /\ Running(p)
    /\ ~Urgent
    /\ \E i \in 1 .. cursor[p] :
          /\ log[i].type = "recvMlsWelcome"
          /\ Handle(p, Redelivered(log[i]), join_group(states[p], Unwrap(log[i].body)))
    /\ UNCHANGED << room, cursor, late, frames, stream >>

Next ==
    \/ \E u \in Users : InitializeAndCreateGroup(u)
    \/ \E u \in Users : Initialize(u)
    \/ \E u \in Users : Leave(u)
    \/ \E p \in Users : UserJoined(p)
    \/ \E p \in Users : UserLeft(p)
    \/ \E p \in Users : RecvMlsWelcome(p)
    \/ \E p \in Users : RecvMlsMessage(p)

Spec == Init /\ [][Next]_vars

\* The room with a delivery service that may repeat a Welcome.
NextRedeliver ==
    \/ Next
    \/ \E p \in Users : RedeliverWelcome(p)

SpecRedeliver == Init /\ [][NextRedeliver]_vars

\* Presence has not yet told p of the join that is next in its log; the
\* delivery service goes on handing p the messages that follow.
DelayUserJoined(p) ==
    /\ Running(p)
    /\ cursor[p] < Len(log)
    /\ NextEvent(p).type = "userJoined"
    /\ Turn(p)
    /\ Cardinality(late[p]) < MaxLate
    /\ late' = [ late EXCEPT ![p] = late[p] \cup { NextEvent(p).uid } ]
    /\ cursor' = [ cursor EXCEPT ![p] = cursor[p] + 1 ]
    /\ UNCHANGED << states, room, log, last, frames, stream >>

\* Presence tells p of a join it had withheld.
LateUserJoined(p) ==
    /\ Running(p)
    /\ ~Urgent
    /\ \E u \in late[p] :
          /\ Handle(p, Event("userJoined", u, None), user_joined(states[p], u, Len(log)))
          /\ late' = [ late EXCEPT ![p] = late[p] \ { u } ]
    /\ UNCHANGED << room, cursor, frames, stream >>

\* The room with a presence service that is not ordered with the delivery
\* service: a join may reach a worker after messages sent later.
NextLatePresence ==
    \/ Next
    \/ \E p \in Users : DelayUserJoined(p)
    \/ \E p \in Users : LateUserJoined(p)

SpecLatePresence == Init /\ [][NextLatePresence]_vars

(***************************************************************************)
(* Properties                                                              *)
(***************************************************************************)

Live == { p \in Users : room[p] = "present" }

Grouped(p) == IsSome(states[p].mls_group)

\* Every live worker is running and has handled every event of the room.
Quiescent ==
    \A p \in Live : ~states[p].panicked /\ cursor[p] = Len(log)

\* No worker, live or departed, has ever panicked.
NoCrash == \A p \in Users : ~states[p].panicked

DCs == { p \in Live : is_designated_committer(states[p]) }

\* The Welcome of the most recent call.
LastWelcome == Unwrap(last.arg.body)

\* The place of u's userLeft in the log.
LeftAt(u) == CHOOSE i \in 1 .. Len(log) : log[i].type = "userLeft" /\ log[i].uid = u

\* q's predicate became true when q handled the userLeft of d: d is the member
\* of q's cohort that left last.
BecameDCOn(q, d) ==
    LET s == states[q] IN
    /\ IsSome(s.users_alive_before_i_was_welcomed)
    /\ d \in Unwrap(s.users_alive_before_i_was_welcomed)
    /\ Unwrap(s.users_alive_before_i_was_welcomed) \subseteq s.users_who_left_since_i_joined
    /\ \A u \in Unwrap(s.users_alive_before_i_was_welcomed) : LeftAt(u) <= LeftAt(d)

\* C1: at every quiescent point of a run without a panic, in a room in which
\* somebody holds a group, exactly one live participant is the designated
\* committer.
C1_UniqueDC ==
    (Quiescent /\ NoCrash /\ \E p \in Live : Grouped(p)) => Cardinality(DCs) = 1

\* The predicate as process_pendings evaluates it while handling the call: after
\* the delta (and, for a leave, the departure) has been recorded.
WasDCWhenHandling ==
    is_designated_committer(
        IF last.op = "userLeft"
        THEN [ last.before EXCEPT
                 !.users_who_left_since_i_joined = @ \cup { last.arg.uid } ]
        ELSE last.before)

DeltaRecorded ==
    LET s == states[last.p] IN
    IF last.op = "userJoined"
    THEN /\ s.pending_adds = Append(last.before.pending_adds, last.arg.uid)
         /\ s.pending_removes = last.before.pending_removes
    ELSE /\ s.pending_removes = Append(last.before.pending_removes, last.arg.uid)
         /\ s.pending_adds = last.before.pending_adds
         /\ last.arg.uid \in s.users_who_left_since_i_joined

\* C2: a userJoined or userLeft handled by a worker that is not the designated
\* committer returns no Welcome and no commit, leaves its group as it was and
\* records the delta in its pending buffer; and every response that carries a
\* Welcome or a commit comes from a worker that is the designated committer.
C2_OnlyDCAuthors ==
    /\ (last.op \in { "userJoined", "userLeft" } /\ ~WasDCWhenHandling)
          => /\ last.resp = DefaultResponse
             /\ states[last.p].mls_group = last.before.mls_group
             /\ DeltaRecorded
    /\ (last.op # "none" /\ (IsSome(last.resp.welcome) \/ last.resp.proposals # << >>))
          => /\ is_designated_committer(states[last.p])
             /\ last.resp.sender_id = Some(last.p)

\* A group member that is not the designated committer has buffered a delta.
C2_Witness ==
    /\ last.op \in { "userJoined", "userLeft" }
    /\ ~WasDCWhenHandling
    /\ IsSome(last.before.mls_group)
    /\ last.resp = DefaultResponse
    /\ DeltaRecorded

\* C3: the departure of a user makes at most one survivor the designated
\* committer.
C3_SingleSuccessor ==
    \A d \in Users :
        room[d] = "left" => Cardinality({ q \in Live : BecameDCOn(q, d) }) <= 1

SafetyNumbers == { safety_number(states[p]) : p \in { q \in Live : Grouped(q) } }

\* C4: at every quiescent point of a run without a panic, all live participants
\* that hold a group are at the same epoch and report the same safety number.
C4_ConvergentEpoch ==
    (Quiescent /\ NoCrash) => Cardinality(SafetyNumbers) <= 1

\* C5: at every quiescent point of a run without a panic, in a room in which
\* every live participant holds a group, every live participant's pending
\* buffers are empty.
C5_PendingDrain ==
    (Quiescent /\ NoCrash /\ \A p \in Live : Grouped(p))
        => \A p \in Live :
              states[p].pending_adds = << >> /\ states[p].pending_removes = << >>

\* C6: is_designated_committer is true exactly when the cohort is Some(S) and
\* every UID of S has departed; it is false when the cohort is None, whatever
\* the departed set holds.
C6_PredicateDefinition ==
    \A p \in Users :
        LET s == states[p] IN
        /\ is_designated_committer(s)
              <=> (/\ IsSome(s.users_alive_before_i_was_welcomed)
                   /\ \A u \in Unwrap(s.users_alive_before_i_was_welcomed) :
                         u \in s.users_who_left_since_i_joined)
        /\ s.users_alive_before_i_was_welcomed = None => ~is_designated_committer(s)

\* One worker is the designated committer because its whole, non-empty cohort
\* has departed; another has seen departures but has no cohort.
C6_Witness ==
    /\ \E p \in Users :
          /\ IsSome(states[p].users_alive_before_i_was_welcomed)
          /\ Unwrap(states[p].users_alive_before_i_was_welcomed) # {}
          /\ is_designated_committer(states[p])
    /\ \E p \in Users :
          /\ states[p].users_alive_before_i_was_welcomed = None
          /\ states[p].users_who_left_since_i_joined # {}

\* The most recent call opened a Welcome: it was addressed to the worker and
\* the worker's KeyPackage was unused.
Joined ==
    /\ last.op = "recvMlsWelcome"
    /\ last.p \in LastWelcome.recipients
    /\ last.before.has_key_package

LowerLeafUids(tree, uid) ==
    { v \in Users : \E i, j \in LeafIdx : tree[i] = v /\ tree[j] = uid /\ i < j }

OtherLeafUids(tree, uid) ==
    { v \in Users : \E i, j \in LeafIdx : tree[i] = v /\ tree[j] = uid /\ i # j }

JoinInstalls ==
    LET s == states[last.p] IN
    /\ IsSome(s.mls_group)
    /\ Unwrap(s.mls_group).tree = LastWelcome.tree
    /\ last.resp = [ DefaultResponse EXCEPT !.new_safety_number = Some(safety_number(s)) ]

C8_StarterIsDC ==
    /\ last.op = "initializeAndCreateGroup"
          => /\ Grouped(last.p)
             /\ member_uids(Unwrap(states[last.p].mls_group)) = { last.p }
             /\ last.resp = [ DefaultResponse EXCEPT
                                !.new_safety_number = Some(safety_number(states[last.p])) ]
    /\ room[Creator] # "absent"
          => /\ states[Creator].users_alive_before_i_was_welcomed = Some({})
             /\ is_designated_committer(states[Creator])

\* The starter has seen members depart and is still the designated committer.
C8_Witness ==
    /\ room[Creator] = "present"
    /\ states[Creator].users_who_left_since_i_joined # {}
    /\ is_designated_committer(states[Creator])

\* C9: a Welcome handled by a worker it is not addressed to returns the empty
\* response and leaves every component of the worker's state as it was.
C9_MisroutedWelcome ==
    (last.op = "recvMlsWelcome" /\ last.p \notin LastWelcome.recipients)
        => /\ last.resp = DefaultResponse
           /\ states[last.p] = last.before

\* A group member with a pending add handled a Welcome addressed to others.
C9_Witness ==
    /\ last.op = "recvMlsWelcome"
    /\ last.p \notin LastWelcome.recipients
    /\ IsSome(last.before.mls_group)
    /\ last.before.pending_adds # << >>
    /\ states[last.p] = last.before

\* C10: a Welcome handed a second time to a worker it addressed returns the
\* empty response and leaves the worker's group, epoch, cohort and pending
\* buffers as they were.
C10_WelcomeIdempotent ==
    (last.op = "redeliverWelcome" /\ last.p \in LastWelcome.recipients)
        => /\ last.resp = DefaultResponse
           /\ states[last.p] = last.before

\* A worker whose group has moved past the epoch of its Welcome was handed the
\* Welcome again.
C10_Witness ==
    /\ last.op = "redeliverWelcome"
    /\ last.p \in LastWelcome.recipients
    /\ IsSome(last.before.mls_group)
    /\ Unwrap(last.before.mls_group).epoch > LastWelcome.epoch
    /\ states[last.p] = last.before

\* The commit of the most recent call.
LastCommit == Unwrap(last.arg.body)

\* The most recent call handled a commit sent by another worker.
RemoteCommit == last.op = "recvMlsMessage" /\ last.arg.uid # last.p

\* C11: a commit whose epoch is not the worker's current epoch returns the
\* empty response and leaves the epoch, the safety number and both pending
\* buffers (the whole state) as they were.
C11_StaleCommit ==
    (/\ RemoteCommit
     /\ IsSome(last.before.mls_group)
     /\ LastCommit.epoch # Unwrap(last.before.mls_group).epoch)
        => /\ last.resp = DefaultResponse
           /\ states[last.p] = last.before

\* A worker handled the Add commit that produced its own Welcome.
C11_Witness ==
    /\ RemoteCommit
    /\ IsSome(last.before.mls_group)
    /\ LastCommit.epoch < Unwrap(last.before.mls_group).epoch
    /\ last.p \in Range(LastCommit.adds)
    /\ states[last.p] = last.before

Accepted ==
    /\ RemoteCommit
    /\ IsSome(last.before.mls_group)
    /\ LastCommit.epoch = Unwrap(last.before.mls_group).epoch
    /\ LastCommit.parent = Unwrap(last.before.mls_group).tip

\* The UIDs at the leaves the commit removes, in the group before the merge.
RemovedUids(group, c) ==
    { u \in Users : \E i \in Range(c.removes) : group.tree[i] = u }

\* The entries of a pending buffer that are not in gone, in their order.
Without(pending, gone) ==
    LET Keep(u) == u \notin gone IN SelectSeq(pending, Keep)

\* C14: a commit for the worker's current epoch is merged (the epoch advances
\* by one, the members are those before plus the added minus the removed),
\* every added UID leaves Pending-Adds, every removed UID leaves
\* Pending-Removes, and the response is the new safety number alone.
C14_MergeCurrentEpoch ==
    Accepted =>
        LET g == Unwrap(last.before.mls_group)
            s == states[last.p]
        IN /\ IsSome(s.mls_group)
           /\ Unwrap(s.mls_group).epoch = g.epoch + 1
           /\ member_uids(Unwrap(s.mls_group))
                 = (member_uids(g) \cup Range(LastCommit.adds)) \ RemovedUids(g, LastCommit)
           /\ s.pending_adds = Without(last.before.pending_adds, Range(LastCommit.adds))
           /\ s.pending_removes
                 = Without(last.before.pending_removes, RemovedUids(g, LastCommit))
           /\ last.resp = [ DefaultResponse EXCEPT
                              !.new_safety_number = Some(safety_number(s)) ]

\* A merged commit took an entry out of the worker's Pending-Adds.
C14_Witness ==
    /\ Accepted
    /\ Unwrap(states[last.p].mls_group).epoch = Unwrap(last.before.mls_group).epoch + 1
    /\ Len(states[last.p].pending_adds) < Len(last.before.pending_adds)

\* The places in the log of the commits that add u's KeyPackage.
AddCommitsOf(u) ==
    { i \in 1 .. Len(log) :
        /\ log[i].type = "recvMlsMessage"
        /\ u \in Range(Unwrap(log[i].body).adds) }

\* C15: KeyPackage single use: as long as no worker has panicked, no user is
\* added by two different commits.
C15_KeyPackageSingleUse ==
    NoCrash => \A u \in Users : Cardinality(AddCommitsOf(u)) <= 1

\* The payloads of the media frames: byte strings of every length up to MaxLen.
Plaintexts == { [ i \in 1 .. n |-> i ] : n \in 1 .. MaxLen }

\* What a frame can carry on the wire: an MLS application message, an MLS
\* commit, an MLS Welcome, or bytes that are no MLS message at all.
AppMsg(sender, group, msg) ==
    [ kind |-> "application", sender |-> sender, epoch |-> group.epoch,
      tip |-> group.tip, gen |-> group.secret_tree.gen, data |-> msg ]

\* vec![0u8; msg.len()]
Zeros(msg) ==
    [ kind |-> "zeros", sender |-> 0, epoch |-> 0, tip |-> 0, gen |-> 0,
      data |-> [ i \in 1 .. Len(msg) |-> 0 ] ]

Handshake(c) ==
    [ kind |-> "commit", sender |-> c.sender, epoch |-> c.epoch, tip |-> c.parent,
      gen |-> 0, data |-> "commit" ]

WelcomeBytes(sender, wp) ==
    [ kind |-> "welcome", sender |-> sender, epoch |-> wp.epoch, tip |-> wp.tip,
      gen |-> 0, data |-> "welcome" ]

\* The outcome of a frame call: the state it leaves and the bytes it returns.
FrameOutcome(s, bytes) == [ state |-> s, bytes |-> bytes ]

\* A member whose own leaf has been removed holds an inactive group.
is_active(s) ==
    LET group == Unwrap(s.mls_group) IN group.tree[group.own] = s.uid

\* Variant: the group is unwrapped, not mapped.
encrypt_app_msg_unwrap(s, msg) ==
    IF s.mls_group = None \/ ~is_active(s) THEN FrameOutcome(Panic(s).state, << >>)
    ELSE
        LET group == Unwrap(s.mls_group)
            next == [ group EXCEPT !.secret_tree.gen = @ + 1 ]
        IN  FrameOutcome([ s EXCEPT !.mls_group = Some(next) ],
                         << AppMsg(s.uid, group, msg) >>)

\* encrypt_app_msg_nofail: zeroes of the length of msg without a group;
\* otherwise create_message, which takes the next generation of the worker's
\* own ratchet, and whose error on an inactive group is unwrapped.
encrypt_app_msg_nofail(s, msg) ==
    IF s.mls_group = None THEN FrameOutcome(s, << Zeros(msg) >>)
    ELSE IF ~is_active(s) THEN FrameOutcome(Panic(s).state, << >>)
    ELSE
        LET group == Unwrap(s.mls_group)
            next == [ group EXCEPT !.secret_tree.gen = @ + 1 ]
        IN  FrameOutcome([ s EXCEPT !.mls_group = Some(next) ],
                         << AppMsg(s.uid, group, msg) >>)

\* Variant: the decryption ratchet hands out the secret of its current
\* generation only, and keeps no earlier one.
secret_for_decryption_in_order(st, sender, generation) ==
    IF generation = st.head[sender]
    THEN [ ok |-> TRUE, st |-> [ st EXCEPT !.head[sender] = generation + 1 ] ]
    ELSE [ ok |-> FALSE, st |-> st ]

\* The decryption ratchet of one sender: a generation too far ahead or too far
\* back is refused; a generation at or ahead of the ratchet moves the ratchet
\* past it and keeps the skipped secrets, the oldest falling out of the
\* window; an earlier generation is served once from the kept secrets.
secret_for_decryption(st, sender, generation) ==
    LET head == st.head[sender]
        kept == st.kept[sender]
    IN  IF generation > head + MAX_MESSAGE_SEQ_JUMP THEN [ ok |-> FALSE, st |-> st ]
        ELSE IF generation < head /\ head - generation > OUT_OF_ORDER_TOLERANCE
             THEN [ ok |-> FALSE, st |-> st ]
        ELSE IF generation >= head
             THEN [ ok |-> TRUE,
                    st |-> [ st EXCEPT
                               !.head[sender] = generation + 1,
                               !.kept[sender] =
                                   { g \in kept \cup (head .. generation - 1) :
                                       generation + 1 - g <= OUT_OF_ORDER_TOLERANCE } ] ]
        ELSE IF generation \in kept
             THEN [ ok |-> TRUE, st |-> [ st EXCEPT !.kept[sender] = kept \ { generation } ] ]
        ELSE [ ok |-> FALSE, st |-> st ]

\* decrypt_app_msg: Ok with the payload of an application message of the
\* worker's own epoch, from another member, whose generation the ratchet
\* serves; Err for every other input that reaches process_message (a commit is
\* staged and dropped, never merged) and for bytes that are no MLS message;
\* a Welcome is an MLS message that try_into_protocol_message refuses, and the
\* refusal is unwrapped.
decrypt_app_msg(s, ct) ==
    IF s.mls_group = None THEN [ state |-> s, result |-> None ]
    ELSE IF ct.kind = "zeros" THEN [ state |-> s, result |-> None ]
    ELSE IF ct.kind = "welcome" THEN [ state |-> Panic(s).state, result |-> None ]
    ELSE
        LET group == Unwrap(s.mls_group)
            found == secret_for_decryption(group.secret_tree, ct.sender, ct.gen)
            next == [ group EXCEPT !.secret_tree = found.st ]
        IN  IF /\ ct.kind = "application"
               /\ ct.epoch = group.epoch
               /\ ct.tip = group.tip
               /\ ct.sender \in member_uids(group)
               /\ ct.sender # s.uid
               /\ found.ok
            THEN [ state |-> [ s EXCEPT !.mls_group = Some(next) ], result |-> Some(ct.data) ]
            ELSE [ state |-> s, result |-> None ]

\* decrypt_app_msg_nofail: the empty vector on any error.
decrypt_app_msg_nofail(s, ct) ==
    LET r == decrypt_app_msg(s, ct)
    IN  FrameOutcome(r.state, IF IsSome(r.result) THEN << Unwrap(r.result) >> ELSE << >>)

\* The record of a frame call: the bytes written back to the stream.
FrameCall(p, e, out) ==
    [ Call(p, e, states[p], Outcome(out.state, DefaultResponse)) EXCEPT !.frame = out.bytes ]

\* The bytes that may reach a worker's receive stream: the frames on the wire,
\* and the commits and Welcomes of the log.
FramesInFlight ==
    DOMAIN frames
    \cup { Handshake(Unwrap(log[i].body)) :
             i \in { j \in 1 .. Len(log) : log[j].type = "recvMlsMessage" } }
    \cup { WelcomeBytes(log[i].uid, Unwrap(log[i].body)) :
             i \in { j \in 1 .. Len(log) : log[j].type = "recvMlsWelcome" } }

\* encryptStream's transform on one frame: the worker encrypts it and the
\* result is written to the output, which puts it on the wire.
EncryptFrame(p, msg) ==
    LET out == encrypt_app_msg_nofail(states[p], msg)
    IN  /\ states' = [ states EXCEPT ![p] = out.state ]
        /\ frames' = [ ct \in DOMAIN frames \cup Range(out.bytes) |->
                          IF ct \in DOMAIN frames THEN frames[ct] ELSE {} ]
        /\ last' = FrameCall(p, Event("encrypt", p, Some(msg)), out)

\* The send stream hands the worker a frame to encrypt; the result goes on the
\* wire.
Encrypt(p) ==
    /\ Running(p)
    /\ ~Urgent
    /\ Cardinality(DOMAIN frames) < MaxFrames
    /\ \E msg \in Plaintexts : EncryptFrame(p, msg)
    /\ UNCHANGED << room, log, cursor, late, stream >>

\* decryptStream's transform on one frame: the worker decrypts it and the
\* result is written to the output.
DecryptFrame(p, ct) ==
    LET out == decrypt_app_msg_nofail(states[p], ct)
    IN  /\ states' = [ states EXCEPT ![p] = out.state ]
        /\ frames' = IF out.bytes # << >>
                      THEN [ frames EXCEPT ![ct] = @ \cup { p } ]
                      ELSE frames
        /\ last' = FrameCall(p, Event("decrypt", ct.sender, Some(ct)), out)

\* The receive stream hands the worker a frame to decrypt.
Decrypt(p) ==
    /\ Running(p)
    /\ ~Urgent
    /\ \E ct \in FramesInFlight : DecryptFrame(p, ct)
    /\ UNCHANGED << room, log, cursor, late, stream >>

\* The users that enter a call with media.
Callers == 1 .. MaxCallers

\* The room of a call: only the callers enter.
NextCall ==
    \/ \E u \in Users : InitializeAndCreateGroup(u)
    \/ \E u \in Callers : Initialize(u)
    \/ \E u \in Users : Leave(u)
    \/ \E p \in Users : UserJoined(p)
    \/ \E p \in Users : UserLeft(p)
    \/ \E p \in Users : RecvMlsWelcome(p)
    \/ \E p \in Users : RecvMlsMessage(p)

\* A call with its media streams, and a delivery service that may repeat a
\* Welcome.
NextFrames ==
    \/ NextCall
    \/ \E p \in Users : RedeliverWelcome(p)
    \/ \E p \in Users : Encrypt(p)
    \/ \E p \in Users : Decrypt(p)

SpecFrames == Init /\ [][NextFrames]_vars

\* processEvent on encryptStream or decryptStream: the worker is handed a
\* stream that will yield some frames and then close, and enters
\* process_stream's loop.
StartStream(p) ==
    /\ Running(p)
    /\ ~Urgent
    /\ stream.pc = "idle"
    /\ \E ty \in { "encryptStream", "decryptStream" } : \E n \in 0 .. MaxFrames :
          stream' = [ NoStream EXCEPT !.ty = ty, !.p = p, !.unread = n, !.pc = "loop" ]
    /\ UNCHANGED << states, room, log, cursor, last, late, frames >>

\* What reader.read() can resolve to: a frame and done = false while the stream
\* has frames, then no value and done = true.
ReadResults ==
    IF stream.unread = 0 THEN { [ value |-> None, done |-> TRUE ] }
    ELSE { [ value |-> Some(c), done |-> FALSE ] :
             c \in IF stream.ty = "encryptStream" THEN Plaintexts ELSE FramesInFlight }

\* get_frame_data's test: the value is an encoded audio or video frame.
is_frame(value) == IsSome(value)

\* One turn of process_stream's loop: read, get_frame_data (which panics on a
\* value that is no frame), transform, set_frame_data, write, and only then
\* the test of done.
ProcessChunk(p) ==
    /\ Running(p)
    /\ ~Urgent
    /\ stream.pc = "loop"
    /\ stream.p = p
    /\ \E res \in ReadResults :
          IF ~is_frame(res.value)
          THEN /\ states' = [ states EXCEPT ![p] = Panic(@).state ]
               /\ stream' = [ stream EXCEPT !.pc = "panicked" ]
               /\ UNCHANGED << last, frames >>
          ELSE /\ IF stream.ty = "encryptStream"
                  THEN EncryptFrame(p, Unwrap(res.value))
                  ELSE DecryptFrame(p, Unwrap(res.value))
               /\ stream' = [ stream EXCEPT
                                !.unread = @ - 1,
                                !.taken = Append(@, Unwrap(res.value)),
                                !.written = Append(@, last'.frame),
                                !.pc = IF res.done THEN "returned" ELSE "loop" ]
    /\ UNCHANGED << room, log, cursor, late >>

\* A call, one of whose workers is handed a stream.
NextStream ==
    \/ NextCall
    \/ \E p \in Users : StartStream(p)
    \/ \E p \in Users : ProcessChunk(p)

SpecStream == Init /\ [][NextStream]_vars


\* The caller hands a worker a userLeft that carries the worker's own UID; it
\* does so in a room where no worker has stopped yet.
SelfLeft(p) ==
    /\ Running(p)
    /\ ~Urgent
    /\ \A q \in Users : ~states[q].panicked
    /\ Handle(p, Event("userLeft", p, None), user_left(states[p], p, Len(log)))
    /\ UNCHANGED << room, cursor, late, frames, stream >>

\* The room with a caller that may ask a worker to remove itself.
NextSelfLeft ==
    \/ Next
    \/ \E p \in Users : SelfLeft(p)

SpecSelfLeft == Init /\ [][NextSelfLeft]_vars

\* The caller hands a worker a userJoined that carries the worker's own
\* KeyPackage; it does so in a room where no worker has stopped, and not while
\* the worker still holds that KeyPackage in Pending-Adds.
OwnUserJoined(p) ==
    /\ Running(p)
    /\ ~Urgent
    /\ states[p].has_key_package
    /\ \A q \in Users : ~states[q].panicked
    /\ p \notin Range(states[p].pending_adds)
    /\ Handle(p, Event("userJoined", p, None), user_joined(states[p], p, Len(log)))
    /\ UNCHANGED << room, cursor, late, frames, stream >>

\* The room with a caller that may tell a worker of its own join.
NextOwnJoin ==
    \/ Next
    \/ \E p \in Users : OwnUserJoined(p)

SpecOwnJoin == Init /\ [][NextOwnJoin]_vars

\* C16: a running worker that has a group holds in Pending-Adds no KeyPackage
\* of a current member of that group, whichever of the join's presence event
\* and the commit adding the user reaches the worker first.
C16_PendingAddsNotMembers ==
    \A p \in Users :
        (Grouped(p) /\ ~states[p].panicked) =>
            Range(states[p].pending_adds) \cap member_uids(Unwrap(states[p].mls_group)) = {}

\* The most recent call was a userLeft carrying the handling worker's own UID.
OwnUserLeft == last.op = "userLeft" /\ last.arg.uid = last.p

\* C17: no worker's Pending-Removes ever contains the worker's own UID, and a
\* userLeft carrying the worker's own UID is fatal with nothing appended to
\* Pending-Removes, nothing inserted into the departed set and nothing sent.
C17_NoSelfRemoval ==
    /\ \A p \in Users : p \notin Range(states[p].pending_removes)
    /\ OwnUserLeft =>
          /\ states[last.p] = [ last.before EXCEPT !.panicked = TRUE ]
          /\ last.resp = DefaultResponse

\* A designated committer that had a departure buffered was handed a userLeft
\* with its own UID and stopped.
C17_Witness ==
    /\ OwnUserLeft
    /\ states[last.p].panicked
    /\ is_designated_committer(last.before)
    /\ last.before.users_who_left_since_i_joined # {}

\* The most recent call ran on a worker that had a group.
HadGroup == IsSome(last.before.mls_group)

\* The most recent call authored a commit.
AuthoredCommit == last.resp.proposals # << >>

\* The most recent call merged a commit of another worker.
MergedRemoteCommit ==
    /\ last.op = "recvMlsMessage"
    /\ last.arg.uid # last.p
    /\ LastCommit.epoch = Unwrap(last.before.mls_group).epoch

StartedOrWelcomed ==
    \/ last.op = "initializeAndCreateGroup"
    \/ /\ last.op \in { "recvMlsWelcome", "redeliverWelcome" }
       /\ last.p \in LastWelcome.recipients
       /\ IsSome(states[last.p].mls_group)

\* C19: a worker's welcome cohort goes from None to Some only in the call that
\* starts a group or opens a Welcome, and a cohort that is Some(S) is the same
\* after every call.
C19_CohortImmutable ==
    /\ IsSome(last.before.users_alive_before_i_was_welcomed) =>
          states[last.p].users_alive_before_i_was_welcomed
              = last.before.users_alive_before_i_was_welcomed
    /\ (/\ last.before.users_alive_before_i_was_welcomed = None
        /\ last.p \in Users
        /\ IsSome(states[last.p].users_alive_before_i_was_welcomed)) => StartedOrWelcomed

\* A worker with a non-empty cohort handled the departure of a member of the
\* cohort and has the same cohort.
C19_Witness ==
    /\ last.op = "userLeft"
    /\ IsSome(last.before.users_alive_before_i_was_welcomed)
    /\ last.arg.uid \in Unwrap(last.before.users_alive_before_i_was_welcomed)
    /\ states[last.p].users_alive_before_i_was_welcomed
          = last.before.users_alive_before_i_was_welcomed

\* The most recent call was a userLeft for another user's UID.
OtherUserLeft == last.op = "userLeft" /\ last.arg.uid # last.p

\* C20: a userLeft for another UID puts the UID in the departed set, with or
\* without a group, and at the end of Pending-Removes, where it stays unless
\* the worker is the designated committer and commits its buffers in the same
\* call; no call of any kind takes a UID out of the departed set.
C20_LeaveRecorded ==
    /\ last.p \in Users =>
          last.before.users_who_left_since_i_joined
              \subseteq states[last.p].users_who_left_since_i_joined
    /\ OtherUserLeft =>
          LET s == states[last.p]
              recorded == [ last.before EXCEPT
                              !.pending_removes = Append(@, last.arg.uid),
                              !.users_who_left_since_i_joined = @ \cup { last.arg.uid } ]
          IN  /\ s.users_who_left_since_i_joined
                    = last.before.users_who_left_since_i_joined \cup { last.arg.uid }
              /\ ~is_designated_committer(recorded) =>
                    (s = recorded /\ last.resp = DefaultResponse)
              /\ (is_designated_committer(recorded) /\ ~s.panicked) =>
                    (s.pending_adds = << >> /\ s.pending_removes = << >>)

\* A worker that has no group yet handled the departure of another user.
C20_Witness ==
    /\ OtherUserLeft
    /\ last.before.mls_group = None
    /\ last.before.has_key_package
    /\ states[last.p].pending_removes = Append(last.before.pending_removes, last.arg.uid)
    /\ last.arg.uid \in states[last.p].users_who_left_since_i_joined

\* C21: a userJoined with another user's KeyPackage puts it at the end of
\* Pending-Adds (where it stays unless the worker is the designated committer
\* and commits its buffers in the same call), and a userJoined with the
\* worker's own KeyPackage appends nothing to Pending-Adds.
C21_JoinRecorded ==
    last.op = "userJoined" =>
        LET s == states[last.p]
            recorded == [ last.before EXCEPT !.pending_adds = Append(@, last.arg.uid) ]
        IN  /\ (last.arg.uid # last.p /\ ~is_designated_committer(recorded)) =>
                  (s = recorded /\ last.resp = DefaultResponse)
            /\ last.arg.uid = last.p => s.pending_adds = last.before.pending_adds

\* The worker's state in the most recent userJoined or userLeft call once the
\* event has been recorded, as process_pendings finds it.
Recorded ==
    IF last.op = "userJoined"
    THEN [ last.before EXCEPT !.pending_adds = Append(@, last.arg.uid) ]
    ELSE [ last.before EXCEPT
             !.pending_removes = Append(@, last.arg.uid),
             !.users_who_left_since_i_joined = @ \cup { last.arg.uid } ]

\* The most recent call was a userJoined or userLeft on a worker that is the
\* designated committer once the event is recorded, and it did not panic.
DCHandled ==
    /\ last.op \in { "userJoined", "userLeft" }
    /\ is_designated_committer(Recorded)
    /\ ~states[last.p].panicked

\* The most recent call drained a non-empty Pending-Adds.
DrainedAdds == DCHandled /\ Recorded.pending_adds # << >>

\* The commits of the most recent response that add members.
AddCommits == SelectSeq(last.resp.proposals, LAMBDA c : c.adds # << >>)

\* The commits of the most recent response that remove members.
RemoveCommits == SelectSeq(last.resp.proposals, LAMBDA c : c.adds = << >>)

\* The Welcomes of the most recent response.
Welcomes == IF IsSome(last.resp.welcome) THEN 1 ELSE 0

\* C22 (as the code has it): a drain of k >= 1 pending adds yields one Welcome
\* addressed to all k users and one Add commit carrying the k KeyPackages in
\* insertion order, and the adds advance the epoch by one.
C22_OneBatchPerDrain ==
    DrainedAdds =>
        /\ Welcomes = 1
        /\ Unwrap(last.resp.welcome).recipients = Range(Recorded.pending_adds)
        /\ Len(AddCommits) = 1
        /\ AddCommits[1].adds = Recorded.pending_adds
        /\ AddCommits[1].epoch = Unwrap(last.before.mls_group).epoch
        /\ Unwrap(last.resp.welcome).epoch = Unwrap(last.before.mls_group).epoch + 1

\* C22 (as stated): a drain of k >= 1 pending adds yields k Welcomes and k
\* Add commits, and the adds advance the epoch by k.
C22_OnePairPerAdd ==
    DrainedAdds =>
        /\ Welcomes = Len(Recorded.pending_adds)
        /\ Len(AddCommits) = Len(Recorded.pending_adds)
        /\ Unwrap(last.resp.welcome).epoch
              = Unwrap(last.before.mls_group).epoch + Len(Recorded.pending_adds)

\* A worker became the designated committer with two pending adds and drained
\* them.
C22_Witness ==
    /\ DrainedAdds
    /\ Len(Recorded.pending_adds) >= 2
    /\ Welcomes = 1

\* C23: a response carries at most one Welcome and at most two commits; a
\* designated committer with one pending add and no pending remove returns one
\* Welcome and one commit; with two or more pending adds and a pending remove,
\* one Welcome addressed to all the added users and two commits, the Add then
\* the Remove; with pending removes only, one commit and no Welcome.
C23_ResponseCounts ==
    /\ Welcomes <= 1
    /\ Len(last.resp.proposals) <= 2
    /\ (DCHandled /\ Len(Recorded.pending_adds) = 1 /\ Recorded.pending_removes = << >>) =>
          (Welcomes = 1 /\ Len(last.resp.proposals) = 1 /\ Len(AddCommits) = 1)
    /\ (DCHandled /\ Len(Recorded.pending_adds) >= 2 /\ Recorded.pending_removes # << >>) =>
          /\ Welcomes = 1
          /\ Unwrap(last.resp.welcome).recipients = Range(Recorded.pending_adds)
          /\ Len(last.resp.proposals) = 2
          /\ last.resp.proposals[1].adds # << >> /\ last.resp.proposals[1].removes = << >>
          /\ last.resp.proposals[2].adds = << >> /\ last.resp.proposals[2].removes # << >>
    /\ (DCHandled /\ Recorded.pending_adds = << >> /\ Recorded.pending_removes # << >>) =>
          (Welcomes = 0 /\ Len(last.resp.proposals) = 1 /\ Len(RemoveCommits) = 1)

\* A worker became the designated committer with two pending adds and a
\* pending remove and returned one Welcome and two commits.
C23_Witness ==
    /\ DCHandled
    /\ Len(Recorded.pending_adds) >= 2
    /\ Recorded.pending_removes # << >>
    /\ Len(last.resp.proposals) = 2

\* C24: a response has at most one Remove commit, the Remove commit is the
\* last commit of the response, and when the response also adds members the
\* Remove commit is authored on the group state the Welcome carries, the one
\* the Add commit produces.
C24_RemoveAfterAdds ==
    /\ Len(RemoveCommits) <= 1
    /\ RemoveCommits # << >> =>
          /\ last.resp.proposals[Len(last.resp.proposals)] = RemoveCommits[1]
          /\ AddCommits # << >> =>
                /\ IsSome(last.resp.welcome)
                /\ RemoveCommits[1].epoch = AddCommits[1].epoch + 1
                /\ RemoveCommits[1].parent = AddCommits[1].id
                /\ RemoveCommits[1].epoch = Unwrap(last.resp.welcome).epoch
                /\ RemoveCommits[1].parent = Unwrap(last.resp.welcome).tip

\* A response with an Add commit followed by a Remove commit.
C24_Witness ==
    /\ Len(last.resp.proposals) = 2
    /\ AddCommits # << >>
    /\ RemoveCommits # << >>
    /\ last.resp.proposals[2] = RemoveCommits[1]

\* The place of a kind of outbound object in the specified order.
Rank(type) ==
    CASE type = "newSafetyNumber" -> 1
      [] type = "shareKeyPackage" -> 2
      [] type = "sendMlsWelcome" -> 3
      [] type = "sendMlsMessage" -> 4

\* The outbound list of the most recent call.
LastObjs == obj_list(last.resp)

\* C25: the outbound list of a call has the safety number first, then the
\* KeyPackage share, then the Welcome, then the commits with a Remove commit
\* last, and every Welcome and commit on it carries the UID of the worker that
\* handled the call as senderId.
C25_OutboundOrder ==
    /\ \A i, j \in 1 .. Len(LastObjs) :
          i < j => Rank(LastObjs[i].type) <= Rank(LastObjs[j].type)
    /\ \A i \in 1 .. Len(LastObjs) :
          /\ (LastObjs[i].type = "sendMlsMessage"
                 /\ Unwrap(LastObjs[i].payload).removes # << >>) => i = Len(LastObjs)
          /\ LastObjs[i].type \in { "sendMlsWelcome", "sendMlsMessage" } =>
                LastObjs[i].senderId = Some(last.p)

\* A call whose outbound list is a safety number, a Welcome, an Add commit and
\* a Remove commit.
C25_Witness ==
    /\ Len(LastObjs) = 4
    /\ LastObjs[1].type = "newSafetyNumber"
    /\ LastObjs[2].type = "sendMlsWelcome"
    /\ LastObjs[3].type = "sendMlsMessage"
    /\ Unwrap(LastObjs[4].payload).removes # << >>

\* The members of the worker of the most recent call, after the call.
MembersNow == member_uids(Unwrap(states[last.p].mls_group))

\* C26 (as the code has it): after a designated committer handles userJoined
\* or userLeft both its buffers are empty, every UID that was in Pending-Adds
\* and not in Pending-Removes is a member of its group, and no UID that was in
\* Pending-Removes is a member of its group.
C26_DrainedByDC ==
    DCHandled =>
        /\ states[last.p].pending_adds = << >>
        /\ states[last.p].pending_removes = << >>
        /\ (Range(Recorded.pending_adds) \ Range(Recorded.pending_removes)) \subseteq MembersNow
        /\ Range(Recorded.pending_removes) \cap MembersNow = {}

\* C26 (as stated): every UID that was in Pending-Adds is a member afterwards.
C26_EveryAddIsMember ==
    DCHandled =>
        /\ states[last.p].pending_adds = << >>
        /\ states[last.p].pending_removes = << >>
        /\ Range(Recorded.pending_adds) \subseteq MembersNow
        /\ Range(Recorded.pending_removes) \cap MembersNow = {}

\* A designated committer drained buffers that held the join and the departure
\* of the same user, and the join of another.
C26_Witness ==
    /\ DCHandled
    /\ Range(Recorded.pending_adds) \cap Range(Recorded.pending_removes) # {}
    /\ Range(Recorded.pending_adds) \ Range(Recorded.pending_removes) # {}
    /\ states[last.p].pending_adds = << >>
    /\ states[last.p].pending_removes = << >>

\* The application frames a sender has put on the wire in one epoch.
FramesOf(sender, epoch, tip) ==
    { c \in DOMAIN frames :
        c.kind = "application" /\ c.sender = sender /\ c.epoch = epoch /\ c.tip = tip }

\* The worker is in the group state the frame was encrypted in, and the frame
\* is another member's.
SharesEpoch(s, ct) ==
    /\ IsSome(s.mls_group)
    /\ Unwrap(s.mls_group).epoch = ct.epoch
    /\ Unwrap(s.mls_group).tip = ct.tip
    /\ ct.sender \in member_uids(Unwrap(s.mls_group))
    /\ ct.sender # s.uid

\* The worker is handed, for the first time, a frame of an epoch it shares with
\* the sender, who has sent at most OUT_OF_ORDER_TOLERANCE frames in it.
FirstDelivery(p, ct) ==
    /\ ct.kind = "application"
    /\ SharesEpoch(states[p], ct)
    /\ p \notin frames[ct]
    /\ Cardinality(FramesOf(ct.sender, ct.epoch, ct.tip)) <= OUT_OF_ORDER_TOLERANCE

\* C27: a frame encrypted by a member decrypts to the original bytes at
\* another worker in the same epoch, whatever the order in which the sender's
\* frames of that epoch reach it, when each is decrypted once and the sender
\* has sent at most OUT_OF_ORDER_TOLERANCE of them.
C27_RoundTrip ==
    [][ \A p \in Users : \A ct \in DOMAIN frames :
          (FirstDelivery(p, ct) /\ Decrypt(p) /\ DecryptFrame(p, ct))
              => last'.frame = << ct.data >> ]_vars

\* A worker has decrypted a frame after a later frame of the same sender and
\* epoch, and got the payload.
C27_Witness ==
    /\ last.op = "decrypt"
    /\ last.frame = << Unwrap(last.arg.body).data >>
    /\ \E c \in DOMAIN frames :
          /\ c.kind = "application"
          /\ c.sender = Unwrap(last.arg.body).sender
          /\ c.epoch = Unwrap(last.arg.body).epoch
          /\ c.tip = Unwrap(last.arg.body).tip
          /\ c.gen > Unwrap(last.arg.body).gen
          /\ last.p \in frames[c]
          /\ Unwrap(last.before.mls_group).secret_tree.head[c.sender] > c.gen

\* C28: encrypt on a worker without a group returns as many zero bytes as the
\* input has bytes, and leaves the worker's state as it was.
C28_ZerosWithoutGroup ==
    (last.op = "encrypt" /\ last.before.mls_group = None) =>
        /\ Len(last.frame) = 1
        /\ last.frame[1].kind = "zeros"
        /\ Len(last.frame[1].data) = Len(Unwrap(last.arg.body))
        /\ \A i \in 1 .. Len(last.frame[1].data) : last.frame[1].data[i] = 0
        /\ states[last.p] = last.before

\* A worker that has entered the room and has not been welcomed encrypts a
\* frame of the longest payload.
C28_Witness ==
    /\ last.op = "encrypt"
    /\ last.before.mls_group = None
    /\ last.before.has_key_package
    /\ Len(Unwrap(last.arg.body)) = MaxLen

\* C29: an encrypt or decrypt call never aborts the worker: encrypt returns a
\* buffer and decrypt returns the payload or the empty buffer.
C29_NeverFails ==
    last.op \in { "encrypt", "decrypt" } =>
        /\ ~states[last.p].panicked
        /\ last.op = "encrypt" => Len(last.frame) = 1
        /\ last.op = "decrypt" => Len(last.frame) <= 1

\* C30: process_stream returns when the input stream reports done: the loop
\* does not fail, and what it has written is what it has read, chunk for chunk.
C30_StreamCompletes ==
    /\ stream.pc # "panicked"
    /\ Len(stream.written) = Len(stream.taken)
    /\ (stream.ty # "none" /\ stream.unread = 0 /\ stream.pc # "loop") => stream.pc = "returned"

\* The most recent call was a userJoined or userLeft on a worker that is the
\* designated committer once the event is recorded, with pending removes.
DCWithRemoves ==
    /\ last.op \in { "userJoined", "userLeft" }
    /\ IsSome(last.before.mls_group)
    /\ is_designated_committer(Recorded)
    /\ Recorded.pending_removes # << >>

\* The pending removes that are members once the pending adds are committed.
RemoveTargets ==
    Range(Recorded.pending_removes)
        \cap (member_uids(Unwrap(last.before.mls_group)) \cup Range(Recorded.pending_adds))

\* C31: a designated committer with pending removes does not fail; it authors
\* one Remove commit that removes exactly the pending removes that are members,
\* and none when no pending remove is a member.
C31_RemovesExactlyMembers ==
    DCWithRemoves =>
        /\ ~states[last.p].panicked
        /\ MembersNow =
              (member_uids(Unwrap(last.before.mls_group)) \cup Range(Recorded.pending_adds))
                  \ RemoveTargets
        /\ Len(RemoveCommits) = (IF RemoveTargets = {} THEN 0 ELSE 1)
        /\ \A i \in 1 .. Len(RemoveCommits) : RemoveCommits[i].removes # << >>

\* The users at the leaves of the tree of the most recent Welcome.
WelcomedUsers == { LastWelcome.tree[i] : i \in DOMAIN LastWelcome.tree } \ { 0 }

\* C32: a join drops from Pending-Adds the users that are in the welcomed
\* tree, keeps the others in their order, and leaves Pending-Removes and the
\* departed set as they were.
C32_JoinPurge ==
    Joined =>
        /\ states[last.p].pending_adds
              = SelectSeq(last.before.pending_adds, LAMBDA u : u \notin WelcomedUsers)
        /\ states[last.p].pending_removes = last.before.pending_removes
        /\ states[last.p].users_who_left_since_i_joined
              = last.before.users_who_left_since_i_joined

\* A worker that had buffered the join of a peer welcomed with it, and a
\* departure, has joined.
C32_Witness ==
    /\ Joined
    /\ Range(last.before.pending_adds) \cap WelcomedUsers # {}
    /\ last.before.pending_removes # << >>

\* The places in the log of the commits.
CommitPlaces == { i \in 1 .. Len(log) : log[i].type = "recvMlsMessage" }

\* C33: no fork: as long as no worker has panicked, no two commits are
\* authored on the same group state, so no epoch of the group has two commits.
C33_NoFork ==
    NoCrash =>
        \A i, j \in CommitPlaces :
            (/\ Unwrap(log[i].body).epoch = Unwrap(log[j].body).epoch
             /\ Unwrap(log[i].body).parent = Unwrap(log[j].body).parent) => i = j

\* C34: a worker that is the designated committer when it has handled an
\* event holds no pending add and no pending remove.
C34_DCHoldsNothing ==
    \A p \in Users :
        (~states[p].panicked /\ is_designated_committer(states[p])) =>
            /\ states[p].pending_adds = << >>
            /\ states[p].pending_removes = << >>

\* C35: a worker has a welcome cohort exactly when it has a group; a worker
\* that is the designated committer has a group, and so has every worker on
\* which process_pendings went on to commit.
C35_CohortIffGroup ==
    /\ \A p \in Users :
          /\ IsSome(states[p].users_alive_before_i_was_welcomed) <=> IsSome(states[p].mls_group)
          /\ is_designated_committer(states[p]) => IsSome(states[p].mls_group)
    /\ (last.op \in { "userJoined", "userLeft" } /\ is_designated_committer(Recorded))
          => IsSome(last.before.mls_group)

\* A designated committer has committed its pendings while another worker in
\* the room has neither a group nor a cohort.
C35_Witness ==
    /\ DCHandled
    /\ last.resp.proposals # << >>
    /\ \E q \in Users :
          /\ room[q] = "present"
          /\ states[q].mls_group = None
          /\ states[q].users_alive_before_i_was_welcomed = None
          /\ states[q].users_who_left_since_i_joined # {}

\* The epoch of a worker's group, None without a group.
EpochOf(s) == IF IsSome(s.mls_group) THEN Some(Unwrap(s.mls_group).epoch) ELSE None

\* C36: the response of a call carries a safety number exactly when the call
\* installed a group or changed the epoch of the worker's group, and the number
\* is that of the worker's state when the call returns.
C36_SafetyNumberReported ==
    last.p \in Users =>
        /\ IsSome(last.resp.new_safety_number)
              <=> (/\ IsSome(states[last.p].mls_group)
                   /\ EpochOf(states[last.p]) # EpochOf(last.before))
        /\ IsSome(last.resp.new_safety_number)
              => Unwrap(last.resp.new_safety_number) = safety_number(states[last.p])

\* A designated committer has authored an Add and a Remove commit in one call
\* and reports the safety number of the epoch after both.
C36_Witness ==
    /\ DCHandled
    /\ Len(last.resp.proposals) = 2
    /\ IsSome(last.resp.new_safety_number)
    /\ Unwrap(last.resp.new_safety_number)[1] = Unwrap(last.before.mls_group).epoch + 2
====
